---- MODULE Spec2Model ----
(***************************************************************************)
(* Model of drivers/md/dm-dust.c as modified to emulate write errors: two  *)
(* red-black trees of bad blocks (read and write), their counters, the     *)
(* spinlock dust_lock, the I/O mapping path and the message interface.     *)
(*                                                                         *)
(* A red-black tree is modelled as the set of the nodes linked in it; a    *)
(* node is the address of a struct badblock in the heap.  The counters     *)
(* are unsigned long long: four 16-bit limbs, least significant first, so  *)
(* that 0 - 1 is 2^64 - 1 as in C.                                         *)
(*                                                                         *)
(* A thread is a context that calls into the target: dust_map for a bio,   *)
(* dust_message for a message.  A locked section is one step taken by the  *)
(* holder of dust_lock; taking and releasing the lock are steps of their   *)
(* own.  quiet_mode only selects which lines are logged and is left out;   *)
(* of the log, only the lines that tell two outcomes apart are kept (msg). *)
(* A store to one of the fail flags is one step.                           *)
(***************************************************************************)
EXTENDS Integers, FiniteSets, Sequences, TLC

\* ---------------------------------------------------------------- bounds
MaxObjs == 5          \* struct badblock slots the allocator can hand out
MaxBudget == 2        \* largest accepted wr_fail_cnt a message carries here
MaxSector == 3        \* largest bi_sector an I/O request carries here
MaxCount == 3         \* one caller: addbadblock is issued only while badblock_count_read is below this
MaxCountConc == 2     \* the same, for concurrent callers

\* ------------------------------------------------------ program constants
WrFailMax == 255      \* tmp_ui > 255 is rejected

RD == FALSE
WR == TRUE
NULL == 0

\* the contexts that call into the target: bios and messages, on two CPUs
Threads == {1, 2}
Objs == 1..MaxObjs
Modes == {RD, WR}

\* Device geometries dust_ctr can leave behind: sect_per_block_shift and the
\* size of the underlying device in sectors.  Both give a device of one block.
Geometries == {[shift |-> 0, sectors |-> 1], [shift |-> 1, sectors |-> 3]}

\* ------------------------------------------------------ unsigned long long
U64Zero == <<0, 0, 0, 0>>

U64OfNat(n) == <<n, 0, 0, 0>>

RECURSIVE U64IncFrom(_, _)
U64IncFrom(x, i) ==
    IF i > 4 THEN x
    ELSE IF x[i] < 65535 THEN [x EXCEPT ![i] = @ + 1]
    ELSE U64IncFrom([x EXCEPT ![i] = 0], i + 1)

RECURSIVE U64DecFrom(_, _)
U64DecFrom(x, i) ==
    IF i > 4 THEN x
    ELSE IF x[i] > 0 THEN [x EXCEPT ![i] = @ - 1]
    ELSE U64DecFrom([x EXCEPT ![i] = 65535], i + 1)

\* x++ and x-- on an unsigned long long
U64Inc(x) == U64IncFrom(x, 1)
U64Dec(x) == U64DecFrom(x, 1)

\* x < n for a small n
U64Below(x, n) == x[2] = 0 /\ x[3] = 0 /\ x[4] = 0 /\ x[1] < n

\* ------------------------------------------------------------------ state
VARIABLES
    dd,          \* struct dust_device: the trees, the counters, the flags
    heap,        \* heap[a]: the struct badblock at address a
    dust_lock,   \* 0 when free, else the thread holding the spinlock
    pc,          \* pc[t]: where thread t is
    loc,         \* loc[t]: the locals of the call thread t is in
    bdev,        \* size of the underlying device in sectors
    kfree_bad    \* a kfree was given memory that was not allocated

vars == <<dd, heap, dust_lock, pc, loc, bdev, kfree_bad>>

FreeObj == [used |-> FALSE, bb |-> 0, wr_fail_cnt |-> 0]

NoLoc == [fn |-> "", mode |-> RD, block |-> 0, wr_fail_cnt |-> 0, bblock |-> NULL,
          tree |-> {}, count |-> U64Zero, r |-> "", msg |-> ""]

\* ------------------------------------------------------------- the rbtree
\* dust_rb_search: the node of root whose bb is blk, or NULL
dust_rb_search(root, h, blk) ==
    IF \E n \in root : h[n].bb = blk
    THEN CHOOSE n \in root : h[n].bb = blk
    ELSE NULL

\* dust_rb_insert that puts the new node in the place of a node with the same
\* bb instead of rejecting it
dust_rb_insert_replace(root, h, new) ==
    [ok |-> TRUE,
     root |-> {n \in root : h[n].bb # h[new].bb} \cup {new}]

\* dust_rb_insert that links the new node without looking for its bb
dust_rb_insert_always(root, h, new) ==
    [ok |-> TRUE, root |-> root \cup {new}]

\* dust_rb_insert: links new unless a node with the same bb is in the tree
dust_rb_insert(root, h, new) ==
    IF \E n \in root : h[n].bb = h[new].bb
    THEN [ok |-> FALSE, root |-> root]
    ELSE [ok |-> TRUE, root |-> root \cup {new}]

rb_erase(node, root) == root \ {node}

\* rb_first: the node with the smallest bb, or NULL
rb_first(root, h) ==
    IF root = {} THEN NULL
    ELSE CHOOSE n \in root : \A m \in root : h[n].bb <= h[m].bb

\* kmalloc: the lowest free address, or NULL when there is none (which
\* address is handed out shows in no result of the driver)
kmalloc(h) ==
    IF \A a \in Objs : h[a].used THEN NULL
    ELSE CHOOSE a \in Objs : ~h[a].used /\ \A b \in Objs : b < a => h[b].used

\* kfree: the memory goes back to the allocator; kfree(NULL) does nothing
kfree(h, a) == IF a = NULL THEN h ELSE [h EXCEPT ![a] = FreeObj]

\* kfree of memory that is not allocated
BadFree(h, a) == a # NULL /\ ~h[a].used

\* ------------------------------------------- bodies of the locked sections
\* dust_remove_block between spin_lock_irqsave and spin_unlock_irqrestore
dust_remove_block(d, h, block, mode) ==
    LET bblock == IF mode = RD
                  THEN dust_rb_search(d.badblocklist_read, h, block)
                  ELSE dust_rb_search(d.badblocklist_write, h, block)
    IN  IF bblock = NULL
        THEN [dd |-> d, heap |-> h, r |-> "-EINVAL", bblock |-> NULL]
        ELSE [dd |-> IF mode = RD
                     THEN [d EXCEPT !.badblocklist_read = rb_erase(bblock, @),
                                    !.badblock_count_read = U64Dec(@)]
                     ELSE [d EXCEPT !.badblocklist_write = rb_erase(bblock, @),
                                    !.badblock_count_write = U64Dec(@)],
              heap |-> kfree(h, bblock), r |-> "0", bblock |-> bblock]

\* dust_add_block between spin_lock_irqsave and spin_unlock_irqrestore; the
\* kfree of a rejected node follows the unlock and is a step of its own
dust_add_block(d, h, bblock, block, wr_fail_cnt, mode) ==
    LET h1 == [h EXCEPT ![bblock].bb = block, ![bblock].wr_fail_cnt = wr_fail_cnt]
        ins == IF mode = RD
               THEN dust_rb_insert(d.badblocklist_read, h1, bblock)
               ELSE dust_rb_insert(d.badblocklist_write, h1, bblock)
    IN  IF ~ins.ok
        THEN [dd |-> d, heap |-> h1, r |-> "-EINVAL"]
        ELSE [dd |-> IF mode = RD
                     THEN [d EXCEPT !.badblocklist_read = ins.root,
                                    !.badblock_count_read = U64Inc(@)]
                     ELSE [d EXCEPT !.badblocklist_write = ins.root,
                                    !.badblock_count_read = U64Inc(@)],
              heap |-> h1, r |-> "0"]

\* dust_query_block: the search decides only which line is logged
dust_query_block(d, h, block, mode) ==
    LET bblock == IF mode = RD
                  THEN dust_rb_search(d.badblocklist_read, h, block)
                  ELSE dust_rb_search(d.badblocklist_write, h, block)
    IN  [r |-> "0",
         msg |-> IF bblock # NULL THEN "found" ELSE "not found"]

\* __dust_map_read that looks the block up in both trees
__dust_map_read_both(d, h, thisblock) ==
    LET bblk == dust_rb_search(d.badblocklist_read \cup d.badblocklist_write,
                               h, thisblock)
    IN  IF bblk # NULL THEN "DM_MAPIO_KILL" ELSE "DM_MAPIO_REMAPPED"

__dust_map_read(d, h, thisblock) ==
    LET bblk == dust_rb_search(d.badblocklist_read, h, thisblock)
    IN  IF bblk # NULL THEN "DM_MAPIO_KILL" ELSE "DM_MAPIO_REMAPPED"

\* the read tree part of __dust_map_write, reached when the write tree did
\* not fail the write
map_write_read_part(d, h, bblk_r) ==
    IF d.fail_read_on_bb /\ bblk_r # NULL /\ h[bblk_r].wr_fail_cnt > 0
    THEN [dd |-> d,
          heap |-> [h EXCEPT ![bblk_r].wr_fail_cnt = (@ - 1) % 256],
          r |-> "DM_MAPIO_KILL", freed |-> NULL]
    ELSE IF d.fail_read_on_bb /\ bblk_r # NULL
    THEN [dd |-> [d EXCEPT !.badblocklist_read = rb_erase(bblk_r, @),
                           !.badblock_count_read = U64Dec(@)],
          heap |-> kfree(h, bblk_r),
          r |-> "DM_MAPIO_REMAPPED", freed |-> bblk_r]
    ELSE [dd |-> d, heap |-> h, r |-> "DM_MAPIO_REMAPPED", freed |-> NULL]

\* __dust_map_write that also erases the write entry that failed the write
__dust_map_write_heals_write(d, h, thisblock) ==
    LET bblk_r == dust_rb_search(d.badblocklist_read, h, thisblock)
        bblk_w == dust_rb_search(d.badblocklist_write, h, thisblock)
    IN  IF d.fail_write_on_bb /\ bblk_w # NULL
        THEN [dd |-> [d EXCEPT !.badblocklist_write = rb_erase(bblk_w, @),
                               !.badblock_count_write = U64Dec(@)],
              heap |-> kfree(h, bblk_w),
              r |-> "DM_MAPIO_KILL", freed |-> bblk_w]
        ELSE map_write_read_part(d, h, bblk_r)

\* __dust_map_write that fails the write on a budget above 0 without
\* lowering the budget
__dust_map_write_no_decrement(d, h, thisblock) ==
    LET bblk_r == dust_rb_search(d.badblocklist_read, h, thisblock)
        bblk_w == dust_rb_search(d.badblocklist_write, h, thisblock)
    IN  IF d.fail_write_on_bb /\ bblk_w # NULL
        THEN [dd |-> d, heap |-> h, r |-> "DM_MAPIO_KILL", freed |-> NULL]
        ELSE IF d.fail_read_on_bb /\ bblk_r # NULL /\ h[bblk_r].wr_fail_cnt > 0
        THEN [dd |-> d, heap |-> h, r |-> "DM_MAPIO_KILL", freed |-> NULL]
        ELSE map_write_read_part(d, h, bblk_r)

\* __dust_map_write that goes on to the read tree after the write tree has
\* failed the write, and keeps the failure
__dust_map_write_fallthrough(d, h, thisblock) ==
    LET bblk_r == dust_rb_search(d.badblocklist_read, h, thisblock)
        bblk_w == dust_rb_search(d.badblocklist_write, h, thisblock)
        out == map_write_read_part(d, h, bblk_r)
    IN  IF d.fail_write_on_bb /\ bblk_w # NULL
        THEN [out EXCEPT !.r = "DM_MAPIO_KILL"]
        ELSE out

\* __dust_map_write that lowers the budget of the read entry without
\* testing that it is above 0
__dust_map_write_wraps(d, h, thisblock) ==
    LET bblk_r == dust_rb_search(d.badblocklist_read, h, thisblock)
        bblk_w == dust_rb_search(d.badblocklist_write, h, thisblock)
    IN  IF d.fail_write_on_bb /\ bblk_w # NULL
        THEN [dd |-> d, heap |-> h, r |-> "DM_MAPIO_KILL", freed |-> NULL]
        ELSE IF d.fail_read_on_bb /\ bblk_r # NULL
        THEN [dd |-> d,
              heap |-> [h EXCEPT ![bblk_r].wr_fail_cnt = (@ - 1) % 256],
              r |-> "DM_MAPIO_KILL", freed |-> NULL]
        ELSE [dd |-> d, heap |-> h, r |-> "DM_MAPIO_REMAPPED", freed |-> NULL]

\* __dust_map_write that consults both trees whatever the fail flags say
__dust_map_write_ungated(d, h, thisblock) ==
    LET bblk_r == dust_rb_search(d.badblocklist_read, h, thisblock)
        bblk_w == dust_rb_search(d.badblocklist_write, h, thisblock)
    IN  IF bblk_w # NULL
        THEN [dd |-> d, heap |-> h, r |-> "DM_MAPIO_KILL", freed |-> NULL]
        ELSE map_write_read_part([d EXCEPT !.fail_read_on_bb = TRUE], h, bblk_r)

__dust_map_write(d, h, thisblock) ==
    LET bblk_r == dust_rb_search(d.badblocklist_read, h, thisblock)
        bblk_w == dust_rb_search(d.badblocklist_write, h, thisblock)
    IN  IF d.fail_write_on_bb /\ bblk_w # NULL
        THEN [dd |-> d, heap |-> h, r |-> "DM_MAPIO_KILL", freed |-> NULL]
        ELSE IF d.fail_read_on_bb /\ bblk_r # NULL /\ h[bblk_r].wr_fail_cnt > 0
        THEN [dd |-> d,
              heap |-> [h EXCEPT ![bblk_r].wr_fail_cnt = (@ - 1) % 256],
              r |-> "DM_MAPIO_KILL", freed |-> NULL]
        ELSE IF d.fail_read_on_bb /\ bblk_r # NULL
        THEN [dd |-> [d EXCEPT !.badblocklist_read = rb_erase(bblk_r, @),
                               !.badblock_count_read = U64Dec(@)],
              heap |-> kfree(h, bblk_r),
              r |-> "DM_MAPIO_REMAPPED", freed |-> bblk_r]
        ELSE [dd |-> d, heap |-> h, r |-> "DM_MAPIO_REMAPPED", freed |-> NULL]

\* dust_clear_badblocks that copies the tree and its count and leaves the
\* device pointing at the same nodes
dust_clear_badblocks_no_reset(d, mode) ==
    IF mode = RD
    THEN [tree |-> d.badblocklist_read, count |-> d.badblock_count_read,
          dd |-> d]
    ELSE [tree |-> d.badblocklist_write, count |-> d.badblock_count_write,
          dd |-> d]

\* dust_clear_badblocks that empties the tree of the device and leaves its
\* count as it was
dust_clear_badblocks_count_kept(d, mode) ==
    IF mode = RD
    THEN [tree |-> d.badblocklist_read, count |-> d.badblock_count_read,
          dd |-> [d EXCEPT !.badblocklist_read = {}]]
    ELSE [tree |-> d.badblocklist_write, count |-> d.badblock_count_write,
          dd |-> [d EXCEPT !.badblocklist_write = {}]]

\* dust_clear_badblocks between lock and unlock: the tree and its count are
\* copied to the caller's locals and the device is left with an empty tree
dust_clear_badblocks(d, mode) ==
    IF mode = RD
    THEN [tree |-> d.badblocklist_read, count |-> d.badblock_count_read,
          dd |-> [d EXCEPT !.badblocklist_read = {},
                           !.badblock_count_read = U64Zero]]
    ELSE [tree |-> d.badblocklist_write, count |-> d.badblock_count_write,
          dd |-> [d EXCEPT !.badblocklist_write = {},
                           !.badblock_count_write = U64Zero]]

\* one turn of the while loop of __dust_clear_badblocks
__dust_clear_badblocks(tree, count, h) ==
    LET node == rb_first(tree, h)
    IN  [tree |-> rb_erase(node, tree), count |-> U64Dec(count),
         heap |-> kfree(h, node), node |-> node]

\* ------------------------------------------------------------------- Init
\* dust_ctr: both trees empty, both counts 0, both fail flags off
InitG(G) ==
    /\ \E g \in G :
          /\ dd = [badblocklist_read |-> {}, badblocklist_write |-> {},
                   badblock_count_read |-> U64Zero,
                   badblock_count_write |-> U64Zero,
                   fail_read_on_bb |-> FALSE, fail_write_on_bb |-> FALSE,
                   sect_per_block_shift |-> g.shift]
          /\ bdev = g.sectors
    /\ heap = [a \in Objs |-> FreeObj]
    /\ dust_lock = 0
    /\ pc = [t \in Threads |-> "idle"]
    /\ loc = [t \in Threads |-> NoLoc]
    /\ kfree_bad = FALSE

Init == InitG(Geometries)

\* ---------------------------------------------------------------- helpers
\* the target is in a table: dust_dtr has not started
Attached == \A t \in Threads : pc[t] \notin {"dtr_read", "dtr_write", "dtr_BUG", "gone"}

Idle(t) == pc[t] = "idle" /\ Attached

\* size without the sector_div: the size of the device in sectors
size_in_sectors == bdev

\* size after sector_div(size, dd->sect_per_block) in dust_message
size == bdev \div (2 ^ dd.sect_per_block_shift)

\* return r from fn: the locals die, the caller sees r (and what was logged)
Ret(t, fn, r, msg) ==
    /\ pc' = [pc EXCEPT ![t] = "ret"]
    /\ loc' = [loc EXCEPT ![t] = [NoLoc EXCEPT !.fn = fn, !.r = r, !.msg = msg]]

\* dust_message returns -EINVAL after DMERR(msg), before a block function
\* is called: the caller has r, the line logged and what the message carried
Reject(t, block, tmp_ui, msg) ==
    /\ pc' = [pc EXCEPT ![t] = "ret"]
    /\ loc' = [loc EXCEPT ![t] =
                 [NoLoc EXCEPT !.fn = "dust_message", !.r = "-EINVAL",
                               !.block = block, !.wr_fail_cnt = tmp_ui,
                               !.msg = msg]]

Goto(t, label) == pc' = [pc EXCEPT ![t] = label]

\* spin_lock_irqsave that takes the lock without waiting for it to be free
spin_lock_irqsave_no_wait(t) == dust_lock' = t

spin_lock_irqsave(t) == dust_lock = 0 /\ dust_lock' = t

\* ------------------------------------------------------------ dust_message
\* "enable read|write" and "disable read|write"
MsgEnable(t) ==
    /\ Idle(t)
    /\ \E mode \in Modes, on \in BOOLEAN :
          dd' = IF mode = RD THEN [dd EXCEPT !.fail_read_on_bb = on]
                             ELSE [dd EXCEPT !.fail_write_on_bb = on]
    /\ Ret(t, "dust_message", "0", "")
    /\ UNCHANGED <<heap, dust_lock, bdev, kfree_bad>>

\* "countbadblocks read|write"
MsgCount(t) ==
    /\ Idle(t)
    /\ spin_lock_irqsave(t)
    /\ \E mode \in Modes :
          loc' = [loc EXCEPT ![t] =
                    [NoLoc EXCEPT !.fn = "dust_message", !.mode = mode]]
    /\ Goto(t, "count_cs")
    /\ UNCHANGED <<dd, heap, bdev, kfree_bad>>

CountCs(t) ==
    /\ pc[t] = "count_cs"
    /\ loc' = [loc EXCEPT ![t].count = IF loc[t].mode = RD
                                       THEN dd.badblock_count_read
                                       ELSE dd.badblock_count_write,
                          ![t].r = "0"]
    /\ Goto(t, "count_unlock")
    /\ UNCHANGED <<dd, heap, dust_lock, bdev, kfree_bad>>

\* "addbadblock read|write <block> [<wr_fail_cnt>]" up to the kmalloc of
\* dust_add_block; without <wr_fail_cnt> the count is 0.  wr_fail_cnt is an
\* unsigned char: the assignment from tmp_ui keeps the low 8 bits.  The
\* count of a node of the write tree is stored and never read: messages for
\* the write tree carry 0 or a count out of range.
MsgAdd(t, B, W, C) ==
    /\ Idle(t)
    /\ U64Below(dd.badblock_count_read, C)
    /\ \E mode \in Modes, block \in B :
       \E tmp_ui \in IF mode = RD THEN W ELSE W \cap {0, WrFailMax + 1} :
          IF tmp_ui > WrFailMax
          THEN /\ Reject(t, block, tmp_ui,
                         "selected write fail count out of range")
               /\ heap' = heap
          ELSE IF block > size
          THEN /\ Reject(t, block, tmp_ui, "selected block value out of range")
               /\ heap' = heap
          ELSE \/ \E a \in Objs :
                     /\ a = kmalloc(heap)
                     /\ heap' = [heap EXCEPT ![a].used = TRUE]
                     /\ loc' = [loc EXCEPT ![t] =
                                  [NoLoc EXCEPT !.fn = "dust_add_block",
                                                !.mode = mode, !.block = block,
                                                !.wr_fail_cnt = tmp_ui % 256,
                                                !.bblock = a]]
                     /\ Goto(t, "add_lock")
               \/ /\ Ret(t, "dust_add_block", "-ENOMEM", "")
                  /\ heap' = heap
    /\ UNCHANGED <<dd, dust_lock, bdev, kfree_bad>>

AddLock(t) ==
    /\ pc[t] = "add_lock"
    /\ spin_lock_irqsave(t)
    /\ Goto(t, "add_cs")
    /\ UNCHANGED <<dd, heap, loc, bdev, kfree_bad>>

AddCs(t) ==
    /\ pc[t] = "add_cs"
    /\ LET out == dust_add_block(dd, heap, loc[t].bblock, loc[t].block,
                                 loc[t].wr_fail_cnt, loc[t].mode)
       IN  /\ dd' = out.dd
           /\ heap' = out.heap
           /\ loc' = [loc EXCEPT ![t].r = out.r]
           /\ Goto(t, IF out.r = "0" THEN "add_unlock" ELSE "add_unlock_dup")
    /\ UNCHANGED <<dust_lock, bdev, kfree_bad>>

\* the return of a rejected insert without the kfree(bblock)
AddKfree_forgets(t) ==
    /\ pc[t] = "add_kfree"
    /\ Ret(t, loc[t].fn, loc[t].r, "")
    /\ UNCHANGED <<dd, heap, dust_lock, bdev, kfree_bad>>

\* the kfree(bblock) after the unlock of a rejected insert
AddKfree(t) ==
    /\ pc[t] = "add_kfree"
    /\ kfree_bad' = (kfree_bad \/ BadFree(heap, loc[t].bblock))
    /\ heap' = kfree(heap, loc[t].bblock)
    /\ Ret(t, loc[t].fn, loc[t].r, "")
    /\ UNCHANGED <<dd, dust_lock, bdev>>

\* "removebadblock read|write <block>" up to the lock of dust_remove_block
MsgRemove(t, B) ==
    /\ Idle(t)
    /\ \E mode \in Modes, block \in B :
          IF block > size
          THEN /\ Reject(t, block, 0, "selected block value out of range")
               /\ dust_lock' = dust_lock
          ELSE /\ spin_lock_irqsave(t)
               /\ loc' = [loc EXCEPT ![t] =
                            [NoLoc EXCEPT !.fn = "dust_remove_block", !.mode = mode,
                                          !.block = block]]
               /\ Goto(t, "remove_cs")
    /\ UNCHANGED <<dd, heap, bdev, kfree_bad>>

RemoveCs(t) ==
    /\ pc[t] = "remove_cs"
    /\ LET out == dust_remove_block(dd, heap, loc[t].block, loc[t].mode)
       IN  /\ dd' = out.dd
           /\ kfree_bad' = (kfree_bad \/ BadFree(heap, out.bblock))
           /\ heap' = out.heap
           /\ loc' = [loc EXCEPT ![t].r = out.r, ![t].bblock = out.bblock]
    /\ Goto(t, "remove_unlock")
    /\ UNCHANGED <<dust_lock, bdev>>

\* "queryblock read|write <block>" up to the lock of dust_query_block
MsgQuery(t, B) ==
    /\ Idle(t)
    /\ \E mode \in Modes, block \in B :
          IF block > size
          THEN /\ Reject(t, block, 0, "selected block value out of range")
               /\ dust_lock' = dust_lock
          ELSE /\ spin_lock_irqsave(t)
               /\ loc' = [loc EXCEPT ![t] =
                            [NoLoc EXCEPT !.fn = "dust_query_block", !.mode = mode,
                                          !.block = block]]
               /\ Goto(t, "query_cs")
    /\ UNCHANGED <<dd, heap, bdev, kfree_bad>>

QueryCs(t) ==
    /\ pc[t] = "query_cs"
    /\ LET out == dust_query_block(dd, heap, loc[t].block, loc[t].mode)
       IN  loc' = [loc EXCEPT ![t].r = out.r, ![t].msg = out.msg]
    /\ Goto(t, "query_unlock")
    /\ UNCHANGED <<dd, heap, dust_lock, bdev, kfree_bad>>

\* ---------------------------------------------------------------- dust_map
\* dust_map for a READ bio and dust_map_read up to the lock; the flag is the
\* value dust_map read from dd
MapRead(t) ==
    /\ Idle(t)
    /\ \E sector \in 0..MaxSector :
          IF dd.fail_read_on_bb
          THEN /\ spin_lock_irqsave(t)
               /\ loc' = [loc EXCEPT ![t] =
                            [NoLoc EXCEPT !.fn = "dust_map_read", !.block =
                               sector \div (2 ^ dd.sect_per_block_shift)]]
               /\ Goto(t, "map_read_cs")
          ELSE /\ Ret(t, "dust_map_read", "DM_MAPIO_REMAPPED", "")
               /\ dust_lock' = dust_lock
    /\ UNCHANGED <<dd, heap, bdev, kfree_bad>>

\* a locked section of dust_map_read that treats the read entry as a write
\* does: the budget goes down by one, and at 0 the entry is erased
MapReadCs_heals(t) ==
    /\ pc[t] = "map_read_cs"
    /\ LET out == map_write_read_part([dd EXCEPT !.fail_read_on_bb = TRUE], heap,
                      dust_rb_search(dd.badblocklist_read, heap, loc[t].block))
       IN  /\ dd' = [out.dd EXCEPT !.fail_read_on_bb = dd.fail_read_on_bb]
           /\ heap' = out.heap
    /\ loc' = [loc EXCEPT ![t].r = __dust_map_read(dd, heap, loc[t].block)]
    /\ Goto(t, "map_read_unlock")
    /\ UNCHANGED <<dust_lock, bdev, kfree_bad>>

MapReadCs(t) ==
    /\ pc[t] = "map_read_cs"
    /\ loc' = [loc EXCEPT ![t].r = __dust_map_read(dd, heap, loc[t].block)]
    /\ Goto(t, "map_read_unlock")
    /\ UNCHANGED <<dd, heap, dust_lock, bdev, kfree_bad>>

\* dust_map for a WRITE bio and dust_map_write up to the lock
MapWrite(t) ==
    /\ Idle(t)
    /\ \E sector \in 0..MaxSector :
          IF dd.fail_write_on_bb \/ dd.fail_read_on_bb
          THEN /\ spin_lock_irqsave(t)
               /\ loc' = [loc EXCEPT ![t] =
                            [NoLoc EXCEPT !.fn = "dust_map_write", !.block =
                               sector \div (2 ^ dd.sect_per_block_shift)]]
               /\ Goto(t, "map_write_cs")
          ELSE /\ Ret(t, "dust_map_write", "DM_MAPIO_REMAPPED", "")
               /\ dust_lock' = dust_lock
    /\ UNCHANGED <<dd, heap, bdev, kfree_bad>>

MapWriteCs(t) ==
    /\ pc[t] = "map_write_cs"
    /\ LET out == __dust_map_write(dd, heap, loc[t].block)
       IN  /\ dd' = out.dd
           /\ kfree_bad' = (kfree_bad \/ BadFree(heap, out.freed))
           /\ heap' = out.heap
           /\ loc' = [loc EXCEPT ![t].r = out.r, ![t].bblock = out.freed]
    /\ Goto(t, "map_write_unlock")
    /\ UNCHANGED <<dust_lock, bdev>>

\* ---------------------------------------------------- dust_clear_badblocks
\* "clearbadblocks read|write" up to the lock
MsgClear(t) ==
    /\ Idle(t)
    /\ spin_lock_irqsave(t)
    /\ \E mode \in Modes :
          loc' = [loc EXCEPT ![t] =
                    [NoLoc EXCEPT !.fn = "dust_clear_badblocks", !.mode = mode]]
    /\ Goto(t, "clear_cs")
    /\ UNCHANGED <<dd, heap, bdev, kfree_bad>>

ClearCs(t) ==
    /\ pc[t] = "clear_cs"
    /\ LET out == dust_clear_badblocks(dd, loc[t].mode)
       IN  /\ dd' = out.dd
           /\ loc' = [loc EXCEPT ![t].tree = out.tree, ![t].count = out.count]
    /\ Goto(t, "clear_unlock")
    /\ UNCHANGED <<heap, dust_lock, bdev, kfree_bad>>

\* __dust_clear_badblocks on the detached tree: rb_first and the test of an
\* empty tree
ClearFirst(t) ==
    /\ pc[t] = "clear_first"
    /\ IF rb_first(loc[t].tree, heap) = NULL
       THEN IF loc[t].count # U64Zero
            THEN /\ Goto(t, "BUG")
                 /\ loc' = loc
            ELSE Ret(t, loc[t].fn, "0", "no badblocks found")
       ELSE /\ Goto(t, "clear_loop")
            /\ loc' = loc
    /\ UNCHANGED <<dd, heap, dust_lock, bdev, kfree_bad>>

\* a turn of the loop, or the two BUG_ONs after it
ClearLoop(t) ==
    /\ pc[t] = "clear_loop"
    /\ IF loc[t].tree # {}
       THEN LET out == __dust_clear_badblocks(loc[t].tree, loc[t].count, heap)
            IN  /\ kfree_bad' = (kfree_bad \/ BadFree(heap, out.node))
                /\ heap' = out.heap
                /\ loc' = [loc EXCEPT ![t].tree = out.tree,
                                      ![t].count = out.count]
                /\ pc' = pc
       ELSE /\ IF loc[t].count # U64Zero
               THEN /\ Goto(t, "BUG")
                    /\ loc' = loc
               ELSE Ret(t, loc[t].fn, "0", "badblocks cleared")
            /\ UNCHANGED <<heap, kfree_bad>>
    /\ UNCHANGED <<dd, dust_lock, bdev>>

\* ------------------------------------------------- unlock and return
UnlockPcs == {"count_unlock", "add_unlock", "add_unlock_dup", "remove_unlock",
              "query_unlock", "map_read_unlock", "map_write_unlock",
              "clear_unlock"}

spin_unlock_irqrestore(t) ==
    /\ pc[t] \in UnlockPcs
    /\ dust_lock' = 0
    /\ IF pc[t] = "add_unlock_dup"
       THEN Goto(t, "add_kfree") /\ loc' = loc
       ELSE IF pc[t] = "clear_unlock"
       THEN Goto(t, "clear_first") /\ loc' = loc
       ELSE Ret(t, loc[t].fn, loc[t].r, loc[t].msg)
    /\ UNCHANGED <<dd, heap, bdev, kfree_bad>>

\* the caller has the result
Return(t) ==
    /\ pc[t] = "ret"
    /\ Goto(t, "idle")
    /\ loc' = [loc EXCEPT ![t] = NoLoc]
    /\ UNCHANGED <<dd, heap, dust_lock, bdev, kfree_bad>>

\* ---------------------------------------------------------------- dust_dtr
\* The table is destroyed when no I/O and no message is in the target.
DtrStart(t) ==
    /\ Attached
    /\ \A u \in Threads : pc[u] \in {"idle", "BUG"}
    /\ pc[t] = "idle"
    /\ Goto(t, "dtr_read")
    /\ loc' = [loc EXCEPT ![t].fn = "dust_dtr",
                          ![t].count = dd.badblock_count_read]
    /\ UNCHANGED <<dd, heap, dust_lock, bdev, kfree_bad>>

\* __dust_clear_badblocks(&dd->badblocklist_read, dd->badblock_count_read)
DtrRead(t) ==
    /\ pc[t] = "dtr_read"
    /\ IF dd.badblocklist_read # {}
       THEN LET out == __dust_clear_badblocks(dd.badblocklist_read,
                                              loc[t].count, heap)
            IN  /\ kfree_bad' = (kfree_bad \/ BadFree(heap, out.node))
                /\ heap' = out.heap
                /\ dd' = [dd EXCEPT !.badblocklist_read = out.tree]
                /\ loc' = [loc EXCEPT ![t].count = out.count]
                /\ pc' = pc
       ELSE /\ IF loc[t].count # U64Zero
               THEN Goto(t, "dtr_BUG") /\ loc' = loc
               ELSE /\ Goto(t, "dtr_write")
                    /\ loc' = [loc EXCEPT ![t].count = dd.badblock_count_write]
            /\ UNCHANGED <<dd, heap, kfree_bad>>
    /\ UNCHANGED <<dust_lock, bdev>>

\* __dust_clear_badblocks(&dd->badblocklist_write, dd->badblock_count_write),
\* then dm_put_device and kfree(dd)
DtrWrite(t) ==
    /\ pc[t] = "dtr_write"
    /\ IF dd.badblocklist_write # {}
       THEN LET out == __dust_clear_badblocks(dd.badblocklist_write,
                                              loc[t].count, heap)
            IN  /\ kfree_bad' = (kfree_bad \/ BadFree(heap, out.node))
                /\ heap' = out.heap
                /\ dd' = [dd EXCEPT !.badblocklist_write = out.tree]
                /\ loc' = [loc EXCEPT ![t].count = out.count]
                /\ pc' = pc
       ELSE /\ IF loc[t].count # U64Zero
               THEN Goto(t, "dtr_BUG") /\ loc' = loc
               ELSE Goto(t, "gone") /\ loc' = [loc EXCEPT ![t] = NoLoc]
            /\ UNCHANGED <<dd, heap, kfree_bad>>
    /\ UNCHANGED <<dust_lock, bdev>>

\* ------------------------------------------------------------------- Next
\* block numbers and write fail counts the messages carry
MsgBlocks == 0..2
MsgCounts == 0..MaxBudget \cup {WrFailMax + 1}

Step(t, B, W, C) ==
    \/ MsgEnable(t)
    \/ MsgCount(t)
    \/ CountCs(t)
    \/ MsgAdd(t, B, W, C)
    \/ AddLock(t)
    \/ AddCs(t)
    \/ AddKfree(t)
    \/ MsgRemove(t, B)
    \/ RemoveCs(t)
    \/ MsgQuery(t, B)
    \/ QueryCs(t)
    \/ MapRead(t)
    \/ MapReadCs(t)
    \/ MapWrite(t)
    \/ MapWriteCs(t)
    \/ MsgClear(t)
    \/ ClearCs(t)
    \/ ClearFirst(t)
    \/ ClearLoop(t)
    \/ spin_unlock_irqrestore(t)
    \/ Return(t)
    \/ DtrStart(t)
    \/ DtrRead(t)
    \/ DtrWrite(t)

\* one caller at a time
NextSeq == Step(1, MsgBlocks, MsgCounts, MaxCount)

SpecSeq == Init /\ [][NextSeq]_vars

\* concurrent callers, on one block of a device with two sectors to the block
Next == \E t \in Threads : Step(t, {0}, {0, 1}, MaxCountConc)

Spec == InitG({[shift |-> 1, sectors |-> 3]}) /\ [][Next]_vars

\* ----------------------------------------------------- what the claims see
\* the entries of a tree, by value
Entries(root, h) ==
    {[bb |-> h[n].bb, wr_fail_cnt |-> h[n].wr_fail_cnt] : n \in root}

\* block b has an entry in the tree
Present(root, h, b) == \E n \in root : h[n].bb = b

\* the registries and their counts
View(d, h) ==
    [rd |-> Entries(d.badblocklist_read, h),
     wr |-> Entries(d.badblocklist_write, h),
     cr |-> d.badblock_count_read,
     cw |-> d.badblock_count_write]

\* the write registry and its count
WriteView(d, h) ==
    [wr |-> Entries(d.badblocklist_write, h), cw |-> d.badblock_count_write]

\* the read registry and its count
ReadView(d, h) ==
    [rd |-> Entries(d.badblocklist_read, h), cr |-> d.badblock_count_read]

\* thread t takes the step from label a to label b
Moves(t, a, b) == pc[t] = a /\ pc'[t] = b

\* C1: whenever the guard is free, the count of each registry is the number
\* of entries in it.
C1_CountIsCardinality ==
    (dust_lock = 0 /\ Attached) =>
        /\ dd.badblock_count_read = U64OfNat(Cardinality(dd.badblocklist_read))
        /\ dd.badblock_count_write = U64OfNat(Cardinality(dd.badblocklist_write))

\* C2: a read is passed when fail_read_on_bb is off; when it is on the read
\* is failed if and only if its block has an entry in the read registry,
\* whatever the write registry holds.
C2_MapReadVerdict ==
    [][\A t \in Threads :
        /\ (pc[t] = "idle" /\ loc'[t].fn = "dust_map_read") =>
              IF dd.fail_read_on_bb
              THEN pc'[t] = "map_read_cs"
              ELSE pc'[t] = "ret" /\ loc'[t].r = "DM_MAPIO_REMAPPED"
        /\ Moves(t, "map_read_cs", "map_read_unlock") =>
              loc'[t].r = IF Present(dd.badblocklist_read, heap, loc[t].block)
                          THEN "DM_MAPIO_KILL" ELSE "DM_MAPIO_REMAPPED"
        /\ Moves(t, "map_read_unlock", "ret") =>
              loc'[t].r = loc[t].r /\ loc'[t].fn = "dust_map_read"
      ]_vars

\* C2 witness: a read failed on a block that has a read entry and no write
\* entry.
C2_Witness ==
    \E t \in Threads :
        /\ pc[t] = "map_read_unlock"
        /\ loc[t].r = "DM_MAPIO_KILL"
        /\ Present(dd.badblocklist_read, heap, loc[t].block)
        /\ ~Present(dd.badblocklist_write, heap, loc[t].block)

\* C3: with fail_write_on_bb on, a write to a block with a write entry is
\* failed; no write ever changes the write registry or its count, and an
\* entry leaves the write registry of an attached device only through
\* removebadblock write or clearbadblocks write.
C3_WriteEntryPermanent ==
    [][\A t \in Threads :
        /\ Moves(t, "map_write_cs", "map_write_unlock") =>
              /\ (dd.fail_write_on_bb
                    /\ Present(dd.badblocklist_write, heap, loc[t].block))
                 => loc'[t].r = "DM_MAPIO_KILL"
              /\ WriteView(dd', heap') = WriteView(dd, heap)
        /\ (pc[t] # pc'[t] /\ Attached' /\
            Entries(dd.badblocklist_write, heap)
               \ Entries(dd'.badblocklist_write, heap') # {})
           => /\ pc[t] \in {"remove_cs", "clear_cs"}
              /\ loc[t].mode = WR
      ]_vars

\* C3 witness: a write was failed by the write registry.
C3_Witness ==
    \E t \in Threads :
        /\ pc[t] = "map_write_unlock"
        /\ loc[t].r = "DM_MAPIO_KILL"
        /\ dd.fail_write_on_bb
        /\ Present(dd.badblocklist_write, heap, loc[t].block)

\* the entry of block b in the tree, by value
EntryOf(root, h, b) ==
    LET n == CHOOSE m \in root : h[m].bb = b
    IN  [bb |-> h[n].bb, wr_fail_cnt |-> h[n].wr_fail_cnt]

\* c is the count one below count b, and b is not 0
OneLess(c, b) == b # U64Zero /\ U64Inc(c) = b

\* n successive writes to block b with nothing in between: the device and
\* heap they leave and the verdicts in order
RECURSIVE Writes(_, _, _, _)
Writes(d, h, b, n) ==
    IF n = 0 THEN [dd |-> d, heap |-> h, rs |-> <<>>]
    ELSE LET out == __dust_map_write(d, h, b)
             rest == Writes(out.dd, out.heap, b, n - 1)
         IN  [rest EXCEPT !.rs = <<out.r>> \o @]

\* C4, one write: with fail_read_on_bb on and the write not failed by the
\* write registry, a write to a block whose read entry has budget k > 0 is
\* failed and leaves the entry with budget k - 1; at budget 0 the write is
\* passed, the entry leaves the read registry and the read count goes down
\* by one; with no read entry the write is passed and nothing changes, and a
\* read of a block without a read entry is passed.
C4_OneWrite ==
    \A t \in Threads :
        /\ (/\ Moves(t, "map_write_cs", "map_write_unlock")
            /\ dd.fail_read_on_bb
            /\ ~(dd.fail_write_on_bb
                   /\ Present(dd.badblocklist_write, heap, loc[t].block)))
           => LET b == loc[t].block
                  rd == Entries(dd.badblocklist_read, heap)
                  rd2 == Entries(dd'.badblocklist_read, heap')
              IN  /\ WriteView(dd', heap') = WriteView(dd, heap)
                  /\ IF Present(dd.badblocklist_read, heap, b)
                     THEN LET e == EntryOf(dd.badblocklist_read, heap, b)
                          IN  IF e.wr_fail_cnt > 0
                              THEN /\ loc'[t].r = "DM_MAPIO_KILL"
                                   /\ rd2 = (rd \ {e}) \cup
                                        {[e EXCEPT !.wr_fail_cnt = @ - 1]}
                                   /\ dd'.badblock_count_read
                                        = dd.badblock_count_read
                              ELSE /\ loc'[t].r = "DM_MAPIO_REMAPPED"
                                   /\ rd2 = rd \ {e}
                                   /\ ~Present(dd'.badblocklist_read, heap', b)
                                   /\ OneLess(dd'.badblock_count_read,
                                              dd.badblock_count_read)
                     ELSE /\ loc'[t].r = "DM_MAPIO_REMAPPED"
                          /\ ReadView(dd', heap') = ReadView(dd, heap)
        /\ (/\ Moves(t, "map_read_cs", "map_read_unlock")
            /\ ~Present(dd.badblocklist_read, heap, loc[t].block))
           => loc'[t].r = "DM_MAPIO_REMAPPED"

\* C4, the run of writes: from a state with the guard free, for a block b
\* whose read entry has budget k and which the write registry does not fail,
\* k + 2 writes to b give k failures and then two passes, leave the read
\* registry without b and with its other entries as they were, the read
\* count one lower and the write registry as it was; a read of b is then
\* passed.
C4_WriteRun ==
    (dust_lock = 0 /\ Attached /\ dd.fail_read_on_bb) =>
        \A b \in 0..MaxSector :
            (/\ Present(dd.badblocklist_read, heap, b)
             /\ ~(dd.fail_write_on_bb
                    /\ Present(dd.badblocklist_write, heap, b)))
            => LET e == EntryOf(dd.badblocklist_read, heap, b)
                   k == e.wr_fail_cnt
                   run == Writes(dd, heap, b, k + 2)
               IN  /\ run.rs = [i \in 1..(k + 2) |->
                                  IF i <= k THEN "DM_MAPIO_KILL"
                                            ELSE "DM_MAPIO_REMAPPED"]
                   /\ Entries(run.dd.badblocklist_read, run.heap)
                        = Entries(dd.badblocklist_read, heap) \ {e}
                   /\ OneLess(run.dd.badblock_count_read,
                              dd.badblock_count_read)
                   /\ WriteView(run.dd, run.heap) = WriteView(dd, heap)
                   /\ __dust_map_read(run.dd, run.heap, b)
                        = "DM_MAPIO_REMAPPED"

\* C4: with fail_read_on_bb on, a read entry of budget k and the write not
\* failed by the write registry, the first k writes to the block are failed
\* and lower the budget by one each, the next write is passed, removes the
\* entry and lowers the read count by one, and writes and reads of the block
\* are passed from then on.
C4_BudgetCountdown == []C4_WriteRun /\ [][C4_OneWrite]_vars

\* C4 witness: a write has just been passed and has freed the read entry of
\* its block.
C4_Witness ==
    \E t \in Threads :
        /\ pc[t] = "map_write_unlock"
        /\ loc[t].bblock # NULL
        /\ loc[t].r = "DM_MAPIO_REMAPPED"
        /\ ~Present(dd.badblocklist_read, heap, loc[t].block)

\* C5: addbadblock for a block that already has an entry in the selected
\* registry ends with -EINVAL and leaves both registries, both counts and
\* the entry's budget as they were (one caller).
C5_DuplicateAdd ==
    [][\A t \in Threads :
        (/\ pc[t] \in {"add_lock", "add_cs", "add_unlock_dup", "add_kfree"}
         /\ pc'[t] # pc[t]
         /\ Present(IF loc[t].mode = RD THEN dd.badblocklist_read
                                        ELSE dd.badblocklist_write,
                    heap, loc[t].block))
        => /\ View(dd', heap') = View(dd, heap)
           /\ pc'[t] \in {"add_cs", "add_unlock_dup", "add_kfree", "ret"}
           /\ pc'[t] = "ret" => /\ loc'[t].r = "-EINVAL"
                                /\ loc'[t].fn = "dust_add_block"
      ]_vars

\* C5 witness: an insert was rejected for a block whose entry has a budget
\* other than the one the rejected call carried.
C5_Witness ==
    \E t \in Threads :
        /\ pc[t] = "add_unlock_dup"
        /\ loc[t].mode = RD
        /\ Present(dd.badblocklist_read, heap, loc[t].block)
        /\ EntryOf(dd.badblocklist_read, heap, loc[t].block).wr_fail_cnt
             # loc[t].wr_fail_cnt

\* C6: removebadblock for a block without an entry in the selected registry
\* returns -EINVAL and changes nothing; for a block with an entry it removes
\* that entry alone and brings that registry's count down by one.
C6_RemoveExact ==
    [][\A t \in Threads :
        Moves(t, "remove_cs", "remove_unlock") =>
          LET b == loc[t].block
              root == IF loc[t].mode = RD THEN dd.badblocklist_read
                                          ELSE dd.badblocklist_write
              root2 == IF loc[t].mode = RD THEN dd'.badblocklist_read
                                           ELSE dd'.badblocklist_write
              cnt == IF loc[t].mode = RD THEN dd.badblock_count_read
                                         ELSE dd.badblock_count_write
              cnt2 == IF loc[t].mode = RD THEN dd'.badblock_count_read
                                          ELSE dd'.badblock_count_write
          IN  IF ~Present(root, heap, b)
              THEN /\ loc'[t].r = "-EINVAL"
                   /\ View(dd', heap') = View(dd, heap)
              ELSE /\ loc'[t].r = "0"
                   /\ Entries(root2, heap')
                        = Entries(root, heap) \ {EntryOf(root, heap, b)}
                   /\ OneLess(cnt2, cnt)
                   /\ IF loc[t].mode = RD
                      THEN WriteView(dd', heap') = WriteView(dd, heap)
                      ELSE ReadView(dd', heap') = ReadView(dd, heap)
      ]_vars

\* C7: from a state with no call in progress, addbadblock of a block without
\* an entry followed by removebadblock of it gives back the same entries in
\* both registries and the same two counts.
C7_AddRemoveRoundTrip ==
    (Attached /\ \A t \in Threads : pc[t] = "idle") =>
        \A mode \in Modes, b \in 0..size, w \in 0..MaxBudget :
            ~Present(IF mode = RD THEN dd.badblocklist_read
                                  ELSE dd.badblocklist_write, heap, b)
            => LET a == kmalloc(heap)
                   h0 == [heap EXCEPT ![a].used = TRUE]
                   add == dust_add_block(dd, h0, a, b, w, mode)
                   rem == dust_remove_block(add.dd, add.heap, b, mode)
               IN  /\ add.r = "0"
                   /\ rem.r = "0"
                   /\ View(rem.dd, rem.heap) = View(dd, heap)

\* C8: clearbadblocks on a registry of N entries detaches N entries with a
\* count of N, leaves the registry empty with count 0, frees the entries
\* without a BUG, and logs "no badblocks found" exactly when N = 0.
C8_ClearReportsAll ==
    [][\A t \in Threads :
        /\ Moves(t, "clear_cs", "clear_unlock") =>
              /\ loc'[t].tree = IF loc[t].mode = RD THEN dd.badblocklist_read
                                                    ELSE dd.badblocklist_write
              /\ loc'[t].count = U64OfNat(Cardinality(loc'[t].tree))
              /\ IF loc[t].mode = RD
                 THEN /\ dd'.badblocklist_read = {}
                      /\ dd'.badblock_count_read = U64Zero
                 ELSE /\ dd'.badblocklist_write = {}
                      /\ dd'.badblock_count_write = U64Zero
        /\ pc[t] \in {"clear_first", "clear_loop"} => pc'[t] # "BUG"
        /\ Moves(t, "clear_first", "ret") =>
              loc[t].tree = {} /\ loc'[t].msg = "no badblocks found"
        /\ Moves(t, "clear_loop", "ret") => loc'[t].msg = "badblocks cleared"
      ]_vars

\* every node linked in a tree of the device or in a detached tree
Linked ==
    dd.badblocklist_read \cup dd.badblocklist_write
        \cup UNION {loc[t].tree : t \in Threads}

\* C9: under every interleaving of bios and messages no entry is freed
\* twice: no kfree is given memory that is not allocated, and no node that
\* is still linked in a tree has been freed.
C9_NoDoubleFree ==
    /\ ~kfree_bad
    /\ \A n \in Linked : heap[n].used

\* C9 witness: one thread is freeing the nodes of a detached tree while the
\* other has just freed a read entry by a write.
C9_Witness ==
    \E t, u \in Threads :
        /\ pc[t] = "clear_loop"
        /\ loc[t].tree # {}
        /\ pc[u] = "map_write_unlock"
        /\ loc[u].bblock # NULL

\* both fail flags are on and the block of the write has an entry in both
\* registries
BothFire(t) ==
    /\ Moves(t, "map_write_cs", "map_write_unlock")
    /\ dd.fail_write_on_bb
    /\ dd.fail_read_on_bb
    /\ Present(dd.badblocklist_write, heap, loc[t].block)
    /\ Present(dd.badblocklist_read, heap, loc[t].block)

\* C10 as claimed: with both flags on and the block in both registries the
\* read registry step still runs: a budget above 0 goes down by one, an entry
\* with budget 0 leaves the read registry and the read count goes down, and
\* the write is failed.
C10_FallThrough ==
    [][\A t \in Threads :
        BothFire(t) =>
          LET e == EntryOf(dd.badblocklist_read, heap, loc[t].block)
              rd == Entries(dd.badblocklist_read, heap)
              rd2 == Entries(dd'.badblocklist_read, heap')
          IN  /\ loc'[t].r = "DM_MAPIO_KILL"
              /\ IF e.wr_fail_cnt > 0
                 THEN rd2 = (rd \ {e}) \cup {[e EXCEPT !.wr_fail_cnt = @ - 1]}
                 ELSE /\ rd2 = rd \ {e}
                      /\ OneLess(dd'.badblock_count_read,
                                 dd.badblock_count_read)
      ]_vars

\* C10 amended: with both flags on and the block in both registries the
\* write is failed by the write registry and the read registry step does not
\* run: the read entry, its budget and the read count stay as they were.
C10_EarlyReturn ==
    [][\A t \in Threads :
        BothFire(t) =>
          /\ loc'[t].r = "DM_MAPIO_KILL"
          /\ loc'[t].bblock = NULL
          /\ ReadView(dd', heap') = ReadView(dd, heap)
          /\ WriteView(dd', heap') = WriteView(dd, heap)
      ]_vars

\* C10 witness: a write was failed with both flags on and its block in both
\* registries, the read entry having budget 0.
C10_Witness ==
    \E t \in Threads :
        /\ pc[t] = "map_write_unlock"
        /\ loc[t].r = "DM_MAPIO_KILL"
        /\ dd.fail_write_on_bb
        /\ dd.fail_read_on_bb
        /\ Present(dd.badblocklist_write, heap, loc[t].block)
        /\ Present(dd.badblocklist_read, heap, loc[t].block)
        /\ EntryOf(dd.badblocklist_read, heap, loc[t].block).wr_fail_cnt = 0

\* C11: neither a clearbadblocks nor the destruction of the device ever
\* stops on a BUG_ON: the count handed to __dust_clear_badblocks is the
\* number of nodes of the tree handed to it.
C11_NoCountMismatch ==
    /\ \A t \in Threads : pc[t] \notin {"BUG", "dtr_BUG"}
    /\ \A t \in Threads :
          pc[t] = "clear_first" =>
              loc[t].count = U64OfNat(Cardinality(loc[t].tree))

\* thread t holds a detached tree: from the detach to the end of the frees
Detached(t) == pc[t] \in {"clear_unlock", "clear_first", "clear_loop"}

\* the step is one of thread t
StepOf(t) == pc'[t] # pc[t] \/ loc'[t] # loc[t]

\* C12, the states: when the detach is done the tree of the device is empty
\* and its count is 0; a detached tree shares no node with a tree of the
\* device, with another detached tree or with an addbadblock in progress,
\* and its nodes have not been freed.
C12_DetachedApart ==
    \A t \in Threads :
        Detached(t) =>
            /\ pc[t] = "clear_unlock" =>
                  IF loc[t].mode = RD
                  THEN /\ dd.badblocklist_read = {}
                       /\ dd.badblock_count_read = U64Zero
                  ELSE /\ dd.badblocklist_write = {}
                       /\ dd.badblock_count_write = U64Zero
            /\ loc[t].tree \cap
                  (dd.badblocklist_read \cup dd.badblocklist_write) = {}
            /\ \A n \in loc[t].tree : heap[n].used
            /\ \A u \in Threads \ {t} :
                  /\ loc[t].tree \cap loc[u].tree = {}
                  /\ loc[u].bblock \notin loc[t].tree

\* C12, the steps: the detach takes the whole tree and its count in the
\* locked section and leaves the other tree alone; each turn of the loop
\* frees one node of the detached tree that was not freed before; the clear
\* ends with the detached tree empty; and no step of another thread frees or
\* changes a detached node or changes the detached count.
C12_DetachSteps ==
    \A t \in Threads :
        /\ Moves(t, "clear_cs", "clear_unlock") =>
              /\ dust_lock = t
              /\ heap' = heap
              /\ IF loc[t].mode = RD
                 THEN /\ loc'[t].tree = dd.badblocklist_read
                      /\ loc'[t].count = dd.badblock_count_read
                      /\ dd' = [dd EXCEPT !.badblocklist_read = {},
                                          !.badblock_count_read = U64Zero]
                 ELSE /\ loc'[t].tree = dd.badblocklist_write
                      /\ loc'[t].count = dd.badblock_count_write
                      /\ dd' = [dd EXCEPT !.badblocklist_write = {},
                                          !.badblock_count_write = U64Zero]
        /\ (Detached(t) /\ ~StepOf(t)) =>
              \A n \in loc[t].tree : heap'[n] = heap[n]
        /\ (Detached(t) /\ StepOf(t)) =>
              /\ dd' = dd
              /\ pc'[t] \in {"ret", "BUG"} => loc[t].tree = {}
              /\ pc'[t] \notin {"ret", "BUG"} =>
                    /\ loc'[t].tree \subseteq loc[t].tree
                    /\ \A n \in loc'[t].tree : heap'[n] = heap[n]
                    /\ \A n \in loc[t].tree \ loc'[t].tree :
                          heap[n].used /\ ~heap'[n].used
                    /\ (pc[t] = "clear_loop" /\ loc[t].tree # {}) =>
                          Cardinality(loc[t].tree \ loc'[t].tree) = 1

\* C12: clearbadblocks detaches the tree and its count in one locked step and
\* leaves the device with an empty tree and count 0; every detached node is
\* freed once, outside the lock; a node added to the device after the detach
\* is neither freed nor counted by the clear, and no read, write or
\* removebadblock reaches a detached node.
C12_AtomicDetach == []C12_DetachedApart /\ [][C12_DetachSteps]_vars

\* C12 witness: a clear is freeing a detached tree that still has a node
\* while the tree of the device it was detached from has a node again.
C12_Witness ==
    \E t \in Threads :
        /\ pc[t] \in {"clear_first", "clear_loop"}
        /\ loc[t].tree # {}
        /\ (IF loc[t].mode = RD THEN dd.badblocklist_read
                                ELSE dd.badblocklist_write) # {}

\* the locked sections
CsPcs == {"count_cs", "add_cs", "remove_cs", "query_cs", "map_read_cs",
          "map_write_cs", "clear_cs"}

\* thread t is between a spin_lock_irqsave and its spin_unlock_irqrestore
InGuard(t) == pc[t] \in CsPcs \cup UnlockPcs

\* C13, the states: a thread inside a locked section holds dust_lock, so no
\* two threads are inside locked sections at once.
C13_OneInside ==
    /\ \A t \in Threads : InGuard(t) => dust_lock = t
    /\ Cardinality({t \in Threads : InGuard(t)}) <= 1

\* C13, the steps: while the device is attached, every step that changes a
\* tree, a node linked in a tree or a count, and every step that reads a tree
\* or a count into a result, is taken inside a locked section by the thread
\* that holds dust_lock.
C13_AccessInside ==
    /\ (Attached' /\ View(dd', heap') # View(dd, heap)) =>
          \E t \in Threads :
              /\ dust_lock = t
              /\ pc[t] \in CsPcs
              /\ pc'[t] \in UnlockPcs
              /\ \A u \in Threads \ {t} : pc'[u] = pc[u] /\ loc'[u] = loc[u]
    /\ \A t \in Threads :
          (pc'[t] \in UnlockPcs /\ pc[t] # pc'[t]) =>
              pc[t] \in CsPcs /\ dust_lock = t /\ dust_lock' = t

\* C13: every search, insert, erase, budget decrement and count read or
\* write of a bio or a message happens with dust_lock held, and at most one
\* thread is inside a locked section at any time.
C13_AllUnderGuard == []C13_OneInside /\ [][C13_AccessInside]_vars

\* C13 witness: one thread is inside the locked section of a write while the
\* other waits for the lock in addbadblock.
C13_Witness ==
    \E t, u \in Threads :
        /\ pc[t] = "map_write_cs"
        /\ dust_lock = t
        /\ pc[u] = "add_lock"

\* C14: a write is passed without a lookup and changes nothing when both
\* fail flags are off; with fail_write_on_bb off an entry in the write
\* registry never fails a write (a failed write then has a read entry with
\* budget above 0 behind it); with fail_read_on_bb off a write leaves the
\* read registry, its budgets and the read count as they were.
C14_WriteGated ==
    [][\A t \in Threads :
        /\ (pc[t] = "idle" /\ loc'[t].fn = "dust_map_write") =>
              IF dd.fail_write_on_bb \/ dd.fail_read_on_bb
              THEN pc'[t] = "map_write_cs"
              ELSE /\ pc'[t] = "ret"
                   /\ loc'[t].r = "DM_MAPIO_REMAPPED"
                   /\ dd' = dd /\ heap' = heap /\ dust_lock' = dust_lock
        /\ Moves(t, "map_write_cs", "map_write_unlock") =>
              LET b == loc[t].block
              IN  /\ (~dd.fail_write_on_bb /\ ~dd.fail_read_on_bb) =>
                        /\ loc'[t].r = "DM_MAPIO_REMAPPED"
                        /\ dd' = dd /\ heap' = heap
                  /\ (~dd.fail_write_on_bb /\ loc'[t].r = "DM_MAPIO_KILL") =>
                        /\ dd.fail_read_on_bb
                        /\ Present(dd.badblocklist_read, heap, b)
                        /\ EntryOf(dd.badblocklist_read, heap, b).wr_fail_cnt > 0
                  /\ ~dd.fail_read_on_bb =>
                        /\ ReadView(dd', heap') = ReadView(dd, heap)
                        /\ loc'[t].bblock = NULL
                        /\ loc'[t].r =
                              IF /\ dd.fail_write_on_bb
                                 /\ Present(dd.badblocklist_write, heap, b)
                              THEN "DM_MAPIO_KILL"
                              ELSE "DM_MAPIO_REMAPPED"
        /\ Moves(t, "map_write_unlock", "ret") =>
              loc'[t].r = loc[t].r /\ loc'[t].fn = "dust_map_write"
      ]_vars

\* C14 witness: with fail_write_on_bb off a write to a block that has a write
\* entry was passed.
C14_Witness ==
    \E t \in Threads :
        /\ pc[t] = "map_write_unlock"
        /\ ~dd.fail_write_on_bb
        /\ Present(dd.badblocklist_write, heap, loc[t].block)
        /\ loc[t].r = "DM_MAPIO_REMAPPED"

\* the step is one of thread t inside a read, a queryblock or a
\* countbadblocks
ReadOnlyStep(t) ==
    \/ /\ pc[t] \in {"map_read_cs", "map_read_unlock", "query_cs",
                     "query_unlock", "count_cs", "count_unlock"}
       /\ pc'[t] # pc[t]
    \/ /\ pc[t] = "idle"
       /\ \/ pc'[t] \in {"map_read_cs", "query_cs", "count_cs"}
          \/ loc'[t].fn = "dust_map_read"

\* the blocks that have an entry in the read registry
ReadBlocks(d, h) == {h[n].bb : n \in d.badblocklist_read}

\* C15: a read, a queryblock and a countbadblocks change no tree, no node, no
\* count and no fail flag, whatever they return; a read that was failed is
\* failed again if repeated, and a block leaves the read registry only
\* through removebadblock read, clearbadblocks read or a write.
C15_ReadOnly ==
    [][\A t \in Threads :
        /\ ReadOnlyStep(t) =>
              /\ dd' = dd
              /\ heap' = heap
              /\ kfree_bad' = kfree_bad
        /\ (/\ Moves(t, "map_read_cs", "map_read_unlock")
            /\ loc'[t].r = "DM_MAPIO_KILL")
           => __dust_map_read(dd', heap', loc[t].block) = "DM_MAPIO_KILL"
        /\ (/\ pc[t] # pc'[t]
            /\ Attached'
            /\ ReadBlocks(dd, heap) \ ReadBlocks(dd', heap') # {})
           => \/ pc[t] = "map_write_cs"
              \/ pc[t] \in {"remove_cs", "clear_cs"} /\ loc[t].mode = RD
      ]_vars

\* C15 witness: a read was failed on a block whose read entry still has a
\* budget above 0.
C15_Witness ==
    \E t \in Threads :
        /\ pc[t] = "map_read_unlock"
        /\ loc[t].r = "DM_MAPIO_KILL"
        /\ Present(dd.badblocklist_read, heap, loc[t].block)
        /\ EntryOf(dd.badblocklist_read, heap, loc[t].block).wr_fail_cnt > 0

\* the step is one of thread t inside addbadblock, removebadblock or
\* clearbadblocks
AdminStep(t) ==
    /\ StepOf(t)
    /\ loc[t].fn \in {"dust_add_block", "dust_remove_block",
                      "dust_clear_badblocks"}
    /\ pc[t] # "ret"

\* C16: no step of an addbadblock, removebadblock or clearbadblocks with mode
\* write changes the read registry or the read count, and none with mode
\* read changes the write registry or the write count.
C16_Independent ==
    [][\A t \in Threads :
        AdminStep(t) =>
            IF loc[t].mode = WR
            THEN ReadView(dd', heap') = ReadView(dd, heap)
            ELSE WriteView(dd', heap') = WriteView(dd, heap)
      ]_vars

\* the tree of the device that mode selects
TreeOf(d, mode) == IF mode = RD THEN d.badblocklist_read
                                ELSE d.badblocklist_write

\* no two nodes of the tree have the same bb
Unique(root, h) == \A n, m \in root : h[n].bb = h[m].bb => n = m

\* C17, the states: each tree has at most one node for a block; and when two
\* addbadblock calls for the same mode and block both wait for the lock,
\* whichever enters first, the first succeeds exactly if the block has no
\* entry and the second is rejected.
C17_OnePerBlock ==
    /\ Unique(dd.badblocklist_read, heap)
    /\ Unique(dd.badblocklist_write, heap)
    /\ \A t, u \in Threads :
          (/\ t # u
           /\ pc[t] = "add_lock" /\ pc[u] = "add_lock"
           /\ dust_lock = 0
           /\ loc[t].mode = loc[u].mode /\ loc[t].block = loc[u].block)
          => LET first == dust_add_block(dd, heap, loc[t].bblock, loc[t].block,
                                         loc[t].wr_fail_cnt, loc[t].mode)
                 second == dust_add_block(first.dd, first.heap, loc[u].bblock,
                                          loc[u].block, loc[u].wr_fail_cnt,
                                          loc[u].mode)
             IN  /\ first.r = IF Present(TreeOf(dd, loc[t].mode), heap,
                                         loc[t].block)
                              THEN "-EINVAL" ELSE "0"
                 /\ second.r = "-EINVAL"
                 /\ Unique(TreeOf(second.dd, loc[t].mode), second.heap)

\* C17, the steps: the locked section of addbadblock links its node exactly
\* if the block has no entry in the selected tree, and is rejected otherwise
\* with the tree as it was.
C17_AddStep ==
    \A t \in Threads :
        (pc[t] = "add_cs" /\ pc'[t] # pc[t]) =>
            LET root == TreeOf(dd, loc[t].mode)
                root2 == TreeOf(dd', loc[t].mode)
            IN  IF Present(root, heap, loc[t].block)
                THEN /\ pc'[t] = "add_unlock_dup"
                     /\ loc'[t].r = "-EINVAL"
                     /\ root2 = root
                ELSE /\ pc'[t] = "add_unlock"
                     /\ loc'[t].r = "0"
                     /\ root2 = root \cup {loc[t].bblock}
                     /\ heap'[loc[t].bblock].bb = loc[t].block

\* C17: each registry holds at most one entry for a block in every reachable
\* state, also when addbadblock calls for the same mode and block run
\* concurrently: one of them succeeds and the others are rejected.
C17_UniquePerBlock == []C17_OnePerBlock /\ [][C17_AddStep]_vars

\* C17 witness: an addbadblock has linked its node and still holds the lock
\* while another addbadblock for the same mode and block waits for it.
C17_Witness ==
    \E t, u \in Threads :
        /\ t # u
        /\ pc[t] = "add_unlock" /\ loc[t].r = "0"
        /\ pc[u] = "add_lock"
        /\ loc[u].mode = loc[t].mode /\ loc[u].block = loc[t].block

\* the nodes linked in a tree of the device
Live(d) == d.badblocklist_read \cup d.badblocklist_write

\* C18, the states: the budget of every entry is in 0..255.
C18_BudgetInRange ==
    \A n \in Live(dd) : heap[n].wr_fail_cnt \in 0..WrFailMax

\* C18, the steps: an addbadblock that carries a budget above 255 is rejected
\* with every tree, node and count as it was, and only budgets up to 255
\* reach dust_add_block, which stores the budget it was given; the budget of
\* an entry that stays in its tree never goes up, and it goes down only by
\* one, from a value above 0, in the locked section of a write.
C18_BudgetSteps ==
    \A t \in Threads :
        /\ (/\ Moves(t, "idle", "ret")
            /\ loc'[t].fn = "dust_message"
            /\ loc'[t].wr_fail_cnt > WrFailMax)
           => /\ loc'[t].r = "-EINVAL"
              /\ dd' = dd /\ heap' = heap
        /\ Moves(t, "idle", "add_lock") => loc'[t].wr_fail_cnt \in 0..WrFailMax
        /\ Moves(t, "add_cs", "add_unlock") =>
              heap'[loc[t].bblock].wr_fail_cnt = loc[t].wr_fail_cnt
        /\ StepOf(t) =>
              \A n \in Live(dd) \cap Live(dd') :
                  \/ heap'[n].wr_fail_cnt = heap[n].wr_fail_cnt
                  \/ /\ heap[n].wr_fail_cnt > 0
                     /\ heap'[n].wr_fail_cnt = heap[n].wr_fail_cnt - 1
                     /\ pc[t] = "map_write_cs"
                     /\ n \in dd.badblocklist_read

\* C18: the budget of every entry stays in 0..255: a budget above 255 is
\* rejected by addbadblock without a change, a write lowers a budget only
\* when it is above 0, and nothing raises the budget of an entry.
C18_BudgetBounded == []C18_BudgetInRange /\ [][C18_BudgetSteps]_vars

\* C18 witness: an addbadblock with a budget above 255 was rejected on a
\* device whose read registry holds an entry with a budget above 0.
C18_Witness ==
    \E t \in Threads :
        /\ pc[t] = "ret"
        /\ loc[t].msg = "selected write fail count out of range"
        /\ loc[t].wr_fail_cnt > WrFailMax
        /\ \E n \in dd.badblocklist_read : heap[n].wr_fail_cnt > 0

\* the number of whole blocks of sect_per_block sectors the underlying
\* device holds
deviceBlockCount ==
    Cardinality({b \in 0..bdev :
                    (b + 1) * (2 ^ dd.sect_per_block_shift) <= bdev})

\* C19, the states: every entry of a registry is for a block that is at most
\* the number of blocks of the device.
C19_EntriesInRange ==
    \A n \in Live(dd) : heap[n].bb <= deviceBlockCount

\* C19, the steps: an addbadblock, removebadblock or queryblock is rejected
\* by dust_message exactly when its block is above the number of blocks of
\* the device (or, for addbadblock, its budget is above 255); the rejection
\* comes before the lock is taken and leaves every tree, node and count as
\* it was, and only blocks up to the number of blocks reach the block
\* functions.
C19_RangeSteps ==
    \A t \in Threads :
        /\ (/\ Moves(t, "idle", "ret")
            /\ loc'[t].fn = "dust_message"
            /\ loc'[t].r = "-EINVAL")
           => /\ \/ loc'[t].block > deviceBlockCount
                 \/ loc'[t].wr_fail_cnt > WrFailMax
              /\ dd' = dd /\ heap' = heap /\ dust_lock' = dust_lock
        /\ (/\ pc[t] = "idle"
            /\ loc'[t].fn \in {"dust_add_block", "dust_remove_block",
                               "dust_query_block"})
           => loc'[t].block <= deviceBlockCount
        /\ (/\ Moves(t, "idle", "ret")
            /\ loc'[t].msg = "selected block value out of range")
           => loc'[t].block > deviceBlockCount

\* C19: a block above the number of blocks of the device is rejected before
\* a registry is touched, every block from 0 to the number of blocks is
\* accepted, and so every entry ever in a registry is for a block that is at
\* most the number of blocks.
C19_BlockRange == []C19_EntriesInRange /\ [][C19_RangeSteps]_vars

\* C19 witness: a message for a block above the number of blocks was
\* rejected on a device that holds an entry for the block whose number is
\* the number of blocks.
C19_Witness ==
    \E t \in Threads :
        /\ pc[t] = "ret"
        /\ loc[t].msg = "selected block value out of range"
        /\ loc[t].block > deviceBlockCount
        /\ \E n \in Live(dd) : heap[n].bb = deviceBlockCount

\* ------------------------------------------------------------- fairness
\* the steps of a call that is in progress and does not wait for the lock
Progress(t) ==
    \/ CountCs(t) \/ AddCs(t) \/ AddKfree(t) \/ RemoveCs(t) \/ QueryCs(t)
    \/ MapReadCs(t) \/ MapWriteCs(t) \/ ClearCs(t) \/ ClearFirst(t)
    \/ ClearLoop(t) \/ spin_unlock_irqrestore(t) \/ Return(t)
    \/ DtrRead(t) \/ DtrWrite(t)

\* A CPU that is inside a call goes on running it, and a CPU that spins on
\* dust_lock gets the lock once it is free often enough (the queued spinlock
\* serves waiters in order).  Whether a new bio or message arrives is up to
\* the environment.
Fairness ==
    \A t \in Threads : WF_vars(Progress(t)) /\ SF_vars(AddLock(t))

\* concurrent callers under fair scheduling, budget 0 only
NextLive == \E t \in Threads : Step(t, {0}, {0}, MaxCountConc)

SpecLive ==
    /\ InitG({[shift |-> 1, sectors |-> 3]})
    /\ [][NextLive]_vars
    /\ Fairness

\* thread t is inside a call
InCall(t) == pc[t] \notin {"idle", "gone"}

\* C20, the states: dust_lock is held only by a thread inside a locked
\* section, so it is free whenever no call is in progress and a thread that
\* has its result (or stopped on a BUG_ON outside the lock) does not hold it.
C20_GuardFree ==
    /\ dust_lock # 0 => InGuard(dust_lock)
    /\ (\A t \in Threads : ~InCall(t)) => dust_lock = 0

\* C20, the steps: every locked section is left through
\* spin_unlock_irqrestore, which frees the lock, before the call returns.
C20_UnlockSteps ==
    \A t \in Threads :
        /\ (pc[t] \in UnlockPcs /\ pc'[t] # pc[t]) => dust_lock' = 0
        /\ (pc[t] \in CsPcs /\ pc'[t] # pc[t]) => pc'[t] \in UnlockPcs
        /\ (pc'[t] = "ret" /\ pc[t] # "ret") => dust_lock' # t

\* C20: every call that takes dust_lock frees it on every path before it
\* returns, the lock is free whenever no call is in progress, and under fair
\* scheduling every call that has started comes to its end.
C20_AlwaysCompletes ==
    /\ []C20_GuardFree
    /\ [][C20_UnlockSteps]_vars
    /\ \A t \in Threads :
          (InCall(t) /\ loc[t].fn # "dust_dtr") ~> ~InCall(t)

\* thread t is in addbadblock with a node it has allocated and not linked
Holding(t) == pc[t] \in {"add_lock", "add_cs", "add_unlock_dup", "add_kfree"}

\* the places where node a is: the trees of the device it is linked in, the
\* clears whose detached tree it is in, the addbadblock calls that hold it
PlacesOf(a) ==
    {<<"live", mode>> : mode \in {m \in Modes : a \in TreeOf(dd, m)}}
        \cup {<<"detached", t>> :
                 t \in {u \in Threads : Detached(u) /\ a \in loc[u].tree}}
        \cup {<<"held", t>> :
                 t \in {u \in Threads : Holding(u) /\ loc[u].bblock = a}}

\* C21, the states: every allocated node is in exactly one place (held by an
\* addbadblock in progress, linked in one tree of the device, or in the
\* detached tree of a clear in progress), a freed node is in none, and when
\* dust_dtr has returned no node is allocated.
C21_OnePlace ==
    /\ \A a \in Objs :
          Cardinality(PlacesOf(a)) = IF heap[a].used THEN 1 ELSE 0
    /\ (\E t \in Threads : pc[t] = "gone") =>
          \A a \in Objs : ~heap[a].used

\* C21, the steps: the node of a rejected addbadblock is freed before the
\* call returns, and a clear returns with every node it detached freed.
C21_FreeSteps ==
    \A t \in Threads :
        /\ Moves(t, "add_kfree", "ret") =>
              /\ loc'[t].r = "-EINVAL"
              /\ heap[loc[t].bblock].used
              /\ ~heap'[loc[t].bblock].used
        /\ (pc[t] \in {"clear_first", "clear_loop"} /\ pc'[t] = "ret") =>
              loc[t].tree = {}

====
